---- MODULE Spec2Model ----
(***************************************************************************)
(* obfstr: compile-time string literal obfuscation (src/src/lib.rs).        *)
(*                                                                         *)
(* Machine integers wider than a byte are little-endian sequences of bytes *)
(* (a u32 is <<b0, b1, b2, b3>>, a u64 and a usize are eight bytes), so     *)
(* that every wrapping operation keeps its width.  Bytes, UTF-16 units and  *)
(* code points are plain naturals.                                          *)
(***************************************************************************)
EXTENDS Integers, Sequences, FiniteSets, TLC

\* ------------------------------------------------------------------------
\* Bit operations on naturals (bytes, 16-bit units, code points).

RECURSIVE BitAnd(_, _)
BitAnd(a, b) ==
    IF a = 0 \/ b = 0 THEN 0
    ELSE (a % 2) * (b % 2) + 2 * BitAnd(a \div 2, b \div 2)

RECURSIVE BitOr(_, _)
BitOr(a, b) ==
    IF a = 0 THEN b
    ELSE IF b = 0 THEN a
    ELSE (IF a % 2 = 1 \/ b % 2 = 1 THEN 1 ELSE 0) + 2 * BitOr(a \div 2, b \div 2)

RECURSIVE BitXor(_, _)
BitXor(a, b) ==
    IF a = 0 THEN b
    ELSE IF b = 0 THEN a
    ELSE ((a + b) % 2) + 2 * BitXor(a \div 2, b \div 2)

RECURSIVE Pow2(_)
Pow2(n) == IF n = 0 THEN 1 ELSE 2 * Pow2(n - 1)

\* ------------------------------------------------------------------------
\* Fixed-width words: little-endian byte sequences.

\* The sequence f as a tuple, its entries evaluated once.
Tuple(f) == f \o <<>>

\* The word of w bytes holding the natural n (n below 2^31).
RECURSIVE FromNat(_, _)
FromNat(n, w) == IF w = 0 THEN <<>> ELSE <<n % 256>> \o FromNat(n \div 256, w - 1)

\* `as u64` of a narrower unsigned word: zero extension.
Widen(a, w) == Tuple([i \in 1..w |-> IF i <= Len(a) THEN a[i] ELSE 0])

\* `as u32`, `as u16`, `as u8` of a wider word: truncation.
Narrow(a, w) == SubSeq(a, 1, w)

WXor(a, b) == Tuple([i \in 1..Len(a) |-> BitXor(a[i], b[i])])

\* Byte i (1-based) of a word, 0 outside it.
ByteAt(a, i) == IF i >= 1 /\ i <= Len(a) THEN a[i] ELSE 0

\* a << k and a >> k, with k below the width in bits.
WShl(a, k) ==
    LET q == k \div 8
        r == k % 8
    IN  Tuple([i \in 1..Len(a) |->
                  ((ByteAt(a, i - q) * Pow2(r)) % 256)
                  + (ByteAt(a, i - q - 1) * Pow2(r)) \div 256])

WShr(a, k) ==
    LET q == k \div 8
        r == k % 8
    IN  Tuple([i \in 1..Len(a) |->
                  (ByteAt(a, i + q) \div Pow2(r))
                  + ((ByteAt(a, i + q + 1) * Pow2(8 - r)) % 256)])

RECURSIVE AddCarry(_, _, _)
AddCarry(a, b, i) ==
    IF i = 1 THEN 0 ELSE (a[i - 1] + b[i - 1] + AddCarry(a, b, i - 1)) \div 256

\* wrapping_add
WAdd(a, b) == Tuple([i \in 1..Len(a) |-> (a[i] + b[i] + AddCarry(a, b, i)) % 256])

\* Two's complement negation and wrapping_sub.
WNeg(a) == WAdd(Tuple([i \in 1..Len(a) |-> 255 - a[i]]), FromNat(1, Len(a)))
WSub(a, b) == WAdd(a, WNeg(b))

RECURSIVE MulCol(_, _, _, _)
MulCol(a, b, k, i) ==
    IF i = 0 THEN 0 ELSE a[i] * b[k + 1 - i] + MulCol(a, b, k, i - 1)

RECURSIVE MulCarry(_, _, _)
MulCarry(a, b, k) ==
    IF k = 1 THEN 0
    ELSE (MulCol(a, b, k - 1, k - 1) + MulCarry(a, b, k - 1)) \div 256

\* wrapping_mul
WMul(a, b) ==
    Tuple([k \in 1..Len(a) |-> (MulCol(a, b, k, k) + MulCarry(a, b, k)) % 256])

\* ------------------------------------------------------------------------
\* Hash / entropy core.

\* splitmix's three 64-bit constants.
GoldenGamma == <<21, 124, 74, 127, 185, 121, 55, 158>>   \* 0x9e3779b97f4a7c15
MixMul1 == <<185, 229, 228, 28, 109, 71, 88, 191>>       \* 0xbf58476d1ce4e5b9
MixMul2 == <<235, 17, 49, 19, 187, 73, 208, 148>>        \* 0x94d049bb133111eb

splitmix(seed) ==
    LET next == WAdd(seed, GoldenGamma)
        z1 == WMul(WXor(next, WShr(next, 30)), MixMul1)
        z2 == WMul(WXor(z1, WShr(z1, 27)), MixMul2)
    IN  WXor(z2, WShr(z2, 31))

\* The DJB2 variant's starting value.
HashInit == 3581

\* The loop of hash from index i (1-based) on.  Each turn's value is computed
\* (its width tested) before the next turn starts.
RECURSIVE HashFold(_, _, _)
HashFold(s, result, i) ==
    IF i > Len(s) THEN result
    ELSE LET r == WAdd(WMul(result, FromNat(33, 4)), FromNat(s[i], 4))
         IN  IF Len(r) = 4 THEN HashFold(s, r, i + 1) ELSE <<>>

\* hash started from DJB2's usual 5381.
hash_from_5381(s) == HashFold(s, FromNat(5381, 4), 1)

\* hash over the UTF-8 bytes s of a string.
hash(s) == HashFold(s, FromNat(HashInit, 4), 1)

\* entropy(file, line, column), with the crate's SEED passed in.
entropy(seed, file, line, column) ==
    splitmix(WXor(splitmix(WXor(splitmix(WXor(seed, Widen(hash(file), 8))),
                                FromNat(line, 8))),
                  FromNat(column, 8)))

\* random!(u8, seed), random!(u32, seed), random!(usize, seed): `seed as T`.
random_u8(seed) == Narrow(seed, 1)[1]
random_u32(seed) == Narrow(seed, 4)
random_usize(seed) == seed

\* const XREF_SHIFT, from the entropy of its random!(u8).
XREF_SHIFT(e) == BitAnd(random_u8(e), 31) + 32

\* ------------------------------------------------------------------------
\* Key-schedule cipher.

\* next_round with its middle shift to the left.
next_round_shl17(x) ==
    LET x1 == WXor(x, WShl(x, 13))
        x2 == WXor(x1, WShl(x1, 17))
    IN  WXor(x2, WShl(x2, 5))

next_round(x) ==
    LET x1 == WXor(x, WShl(x, 13))
        x2 == WXor(x1, WShr(x1, 17))
    IN  WXor(x2, WShl(x2, 5))

\* ------------------------------------------------------------------------
\* Strings.  A source text is a sequence of Unicode scalar values; a &str is
\* its UTF-8 bytes.

\* The UTF-8 bytes of one scalar value (what `as_bytes` sees of a literal).
as_bytes_char(cp) ==
    IF cp < 128 THEN <<cp>>
    ELSE IF cp < 2048 THEN <<192 + (cp \div 64), 128 + (cp % 64)>>
    ELSE IF cp < 65536 THEN
        <<224 + (cp \div 4096), 128 + ((cp \div 64) % 64), 128 + (cp % 64)>>
    ELSE <<240 + (cp \div 262144), 128 + ((cp \div 4096) % 64),
           128 + ((cp \div 64) % 64), 128 + (cp % 64)>>

RECURSIVE as_bytes(_)
as_bytes(text) ==
    IF text = <<>> THEN <<>> ELSE as_bytes_char(Head(text)) \o as_bytes(Tail(text))

\* ------------------------------------------------------------------------
\* Wide-text converter: the code-point decoder of each pass.  Either pass
\* panics (a build error) on a byte matching no pattern and on an index past
\* the end of the bytes.

\* lines 135-154 of wide_len: [ok, chr, i] after one code point read at s[i]
\* (i is 0-based, as in the code).
wide_len_decode(s, i) ==
    LET b(k) == s[i + 1 + k]
        has(n) == i + n <= Len(s)
    IN  IF BitAnd(b(0), 128) = 0 THEN
            [ok |-> TRUE, chr |-> b(0), i |-> i + 1]
        ELSE IF BitAnd(b(0), 224) = 192 THEN
            IF ~has(2) THEN [ok |-> FALSE, chr |-> 0, i |-> i]
            ELSE [ok |-> TRUE,
                  chr |-> BitOr(BitAnd(b(0), 31) * 64, BitAnd(b(1), 63)),
                  i |-> i + 2]
        ELSE IF BitAnd(b(0), 240) = 224 THEN
            IF ~has(3) THEN [ok |-> FALSE, chr |-> 0, i |-> i]
            ELSE [ok |-> TRUE,
                  chr |-> BitOr(BitOr(BitAnd(b(0), 15) * 4096, BitAnd(b(1), 63) * 64),
                                BitAnd(b(2), 63)),
                  i |-> i + 3]
        ELSE IF BitAnd(b(0), 248) = 240 THEN
            IF ~has(4) THEN [ok |-> FALSE, chr |-> 0, i |-> i]
            ELSE [ok |-> TRUE,
                  chr |-> BitOr(BitOr(BitOr(BitAnd(b(0), 7) * 262144,
                                            BitAnd(b(1), 63) * 4096),
                                      BitAnd(b(2), 63) * 64),
                                BitAnd(b(3), 63)),
                  i |-> i + 4]
        ELSE [ok |-> FALSE, chr |-> 0, i |-> i]

\* lines 167-186 of wide: the same decoder, written out a second time there.
wide_decode(s, i) ==
    LET b(k) == s[i + 1 + k]
        has(n) == i + n <= Len(s)
    IN  IF BitAnd(b(0), 128) = 0 THEN
            [ok |-> TRUE, chr |-> b(0), i |-> i + 1]
        ELSE IF BitAnd(b(0), 224) = 192 THEN
            IF ~has(2) THEN [ok |-> FALSE, chr |-> 0, i |-> i]
            ELSE [ok |-> TRUE,
                  chr |-> BitOr(BitAnd(b(0), 31) * 64, BitAnd(b(1), 63)),
                  i |-> i + 2]
        ELSE IF BitAnd(b(0), 240) = 224 THEN
            IF ~has(3) THEN [ok |-> FALSE, chr |-> 0, i |-> i]
            ELSE [ok |-> TRUE,
                  chr |-> BitOr(BitOr(BitAnd(b(0), 15) * 4096, BitAnd(b(1), 63) * 64),
                                BitAnd(b(2), 63)),
                  i |-> i + 3]
        ELSE IF BitAnd(b(0), 248) = 240 THEN
            IF ~has(4) THEN [ok |-> FALSE, chr |-> 0, i |-> i]
            ELSE [ok |-> TRUE,
                  chr |-> BitOr(BitOr(BitOr(BitAnd(b(0), 7) * 262144,
                                            BitAnd(b(1), 63) * 4096),
                                      BitAnd(b(2), 63) * 64),
                                BitAnd(b(3), 63)),
                  i |-> i + 4]
        ELSE [ok |-> FALSE, chr |-> 0, i |-> i]

\* wide_len counting one unit for every code point.
wide_len_units_no_pair(chr) == 1

\* line 155: the units one code point adds to the length.
wide_len_units(chr) == IF chr >= 65536 THEN 2 ELSE 1

\* wide without the 0x10000 offset in the high surrogate.
wide_units_no_offset(chr) ==
    IF chr >= 65536 THEN
        <<(55296 + (chr \div 1024)) % 65536,
          (56320 + ((chr - 65536) % 1024)) % 65536>>
    ELSE <<chr % 65536>>

\* lines 187-195: the units written for one code point (`as u16` truncates).
wide_units(chr) ==
    IF chr >= 65536 THEN
        <<(55296 + ((chr - 65536) \div 1024)) % 65536,
          (56320 + ((chr - 65536) % 1024)) % 65536>>
    ELSE <<chr % 65536>>

\* ------------------------------------------------------------------------
\* Literal builder.

\* [0; n]
Zeros(n) == Tuple([k \in 1..n |-> 0])

\* `round_key as u8`, `round_key as u16`.
as_u8(k) == k[1]
as_u16(k) == k[1] + 256 * k[2]

\* obfuscate using each round key before advancing it.
RECURSIVE obfuscate_loop_late_round(_, _, _, _)
obfuscate_loop_late_round(string, data, round_key, i) ==
    IF ~(i < Len(string)) THEN [ok |-> TRUE, data |-> data]
    ELSE IF i >= Len(data) THEN [ok |-> FALSE, data |-> data]
    ELSE LET rk == next_round(round_key)
             d == [data EXCEPT ![i + 1] = BitXor(string[i + 1], as_u8(round_key))]
         IN  IF Len(d) = Len(data) THEN obfuscate_loop_late_round(string, d, rk, i + 1)
             ELSE [ok |-> FALSE, data |-> data]

\* lines 247-251: the loop of the narrow obfuscate, from index i (0-based) on.
\* data has LEN entries; writing past them panics (ok = FALSE).  Each turn's
\* array is computed (its length tested) before the next turn starts.
RECURSIVE obfuscate_loop(_, _, _, _)
obfuscate_loop(string, data, round_key, i) ==
    IF ~(i < Len(string)) THEN [ok |-> TRUE, data |-> data]
    ELSE IF i >= Len(data) THEN [ok |-> FALSE, data |-> data]
    ELSE LET rk == next_round(round_key)
             d == [data EXCEPT ![i + 1] = BitXor(string[i + 1], as_u8(rk))]
         IN  IF Len(d) = Len(data) THEN obfuscate_loop(string, d, rk, i + 1)
             ELSE [ok |-> FALSE, data |-> data]

\* ObfString::<[u8; LEN]>::obfuscate(key, string), string as its bytes.
obfuscate(LEN, key, string) ==
    LET r == obfuscate_loop(string, Zeros(LEN), key, 0)
    IN  [ok |-> r.ok, key |-> key, data |-> r.data]

\* lines 344-348: the loop of the wide obfuscate over the wide() array.
RECURSIVE obfuscate_wide_loop(_, _, _, _)
obfuscate_wide_loop(string, data, round_key, i) ==
    IF ~(i < Len(string)) THEN [ok |-> TRUE, data |-> data]
    ELSE IF i >= Len(data) THEN [ok |-> FALSE, data |-> data]
    ELSE LET rk == next_round(round_key)
             d == [data EXCEPT ![i + 1] = BitXor(string[i + 1], as_u16(rk))]
         IN  IF Len(d) = Len(data) THEN obfuscate_wide_loop(string, d, rk, i + 1)
             ELSE [ok |-> FALSE, data |-> data]

\* ObfString::<[u16; LEN]>::obfuscate(key, string), string as wide::<LEN>'s array.
obfuscate_wide(LEN, key, string) ==
    LET r == obfuscate_wide_loop(string, Zeros(LEN), key, 0)
    IN  [ok |-> r.ok, key |-> key, data |-> r.data]

\* ------------------------------------------------------------------------
\* Memory.  An ObfString is repr(C): key at its address, data right after it.

\* Bytes of a usize and of a pointer.
UsizeBytes == 8

\* Offset of the data field in ObfString.
DataOffset == 4

\* size_of of a code unit: u8 in the narrow form, u16 in the wide form.
ElemSize(form) == IF form = "wide" THEN 2 ELSE 1

\* self.data.as_ptr()
data_ptr(base) == WAdd(base, FromNat(DataOffset, UsizeBytes))

\* p.wrapping_offset(count) on a pointer to elements of `size` bytes.
wrapping_offset(p, count, size) ==
    IF count >= 0 THEN WAdd(p, FromNat(count * size, UsizeBytes))
    ELSE WSub(p, FromNat((-count) * size, UsizeBytes))

\* addr - origin in bytes when it is a small non-negative distance, else -1.
Distance(addr, origin) ==
    LET d == WSub(addr, origin)
    IN  IF \A k \in 4..UsizeBytes : d[k] = 0
        THEN d[1] + 256 * d[2] + 65536 * d[3]
        ELSE -1

\* What a read of memory outside the object may return.
GarbageUnits == {0, 255}
GarbageKeys == {<<0, 0, 0, 0>>, <<255, 255, 255, 255>>}

\* *(p as *const u32).offset(-1): the values the read can yield.
load_key_before(p, base, lit) ==
    IF wrapping_offset(p, -1, 4) = base THEN {lit.key} ELSE GarbageKeys

\* *p.offset(i) on the data array: the values the read can yield.
load_unit(p, i, size, base, lit) ==
    LET d == Distance(wrapping_offset(p, i, size), data_ptr(base))
    IN  IF d >= 0 /\ d % size = 0 /\ d \div size < Len(lit.data)
        THEN {lit.data[(d \div size) + 1]}
        ELSE GarbageUnits

\* Addresses of the four routines in the binary.
FnAddr ==
    [decryptbuf  |-> <<16, 154, 85, 85, 85, 85, 0, 0>>,
     decrypteq   |-> <<96, 154, 85, 85, 85, 85, 0, 0>>,
     wdecryptbuf |-> <<192, 154, 85, 85, 85, 85, 0, 0>>,
     wdecrypteq  |-> <<32, 155, 85, 85, 85, 85, 0, 0>>]

Routines == {"decryptbuf", "decrypteq", "wdecryptbuf", "wdecrypteq"}

\* The routine a call through the address a lands in.
RoutineAt(a) ==
    IF \E r \in Routines : FnAddr[r] = a
    THEN CHOOSE r \in Routines : FnAddr[r] = a
    ELSE "wild"

\* mem::transmute(ptr::read_volatile(&(routine as usize + x)) - x)
resolve(routine, x) == RoutineAt(WSub(WAdd(FnAddr[routine], x), x))

\* The routine each entry point names.
routine_of(op, form) ==
    IF op = "deobfuscate"
    THEN (IF form = "wide" THEN "wdecryptbuf" ELSE "decryptbuf")
    ELSE (IF form = "wide" THEN "wdecrypteq" ELSE "decrypteq")

\* The pointer deobfuscate and eq pass for a literal at base.
shifted_ptr(base, LEN, shift, form) ==
    wrapping_offset(data_ptr(base), -(LEN * shift), ElemSize(form))

\* The routine adding the shift back in bytes, not in elements.
unshifted_ptr_in_bytes(p, len, shift, size) == wrapping_offset(p, len * shift, 1)

\* The first statement of each routine: undo the shift.
unshifted_ptr(p, len, shift, size) == wrapping_offset(p, len * shift, size)

\* Unit size of the routine entered.
routine_size(f) == IF f \in {"wdecryptbuf", "wdecrypteq"} THEN 2 ELSE 1

\* Every routine masking with `key as u8`.
routine_mask_u8(f, k) == as_u8(k)

\* `key as u8` or `key as u16` in the routine entered.
routine_mask(f, k) == IF routine_size(f) = 2 THEN as_u16(k) ELSE as_u8(k)

\* ------------------------------------------------------------------------
\* Inputs.

\* Longest source text, in code points.
MaxLen == 2

\* One scalar value of each UTF-8 length: 'A', U+00E9, U+20AC, U+1F30D.
CodePoints == {65, 233, 8364, 127757}

RECURSIVE SeqsUpTo(_, _)
SeqsUpTo(S, n) ==
    IF n = 0 THEN {<<>>}
    ELSE LET shorter == SeqsUpTo(S, n - 1)
         IN  shorter \cup {Append(t, c) : t \in {u \in shorter : Len(u) = n - 1}, c \in S}

Texts == SeqsUpTo(CodePoints, MaxLen)

HelloWorld == <<72, 101, 108, 108, 111, 32, 87, 111, 114, 108, 100>>

\* OBFSTR_SEED in the build environment: absent, or a string.
NoEnv == <<-1>>
EnvValues == {NoEnv, HelloWorld}

\* The string the build script supplies when OBFSTR_SEED is absent ("FIXED").
DefaultSeed == <<70, 73, 88, 69, 68>>

\* Scalar values at the ends of each UTF-8 length and around the surrogates.
BoundaryCodePoints == {0, 127, 128, 2047, 2048, 55295, 57344, 65535, 65536, 1114111}

\* Texts handed to wide!.
WideInputs == Texts \cup {<<c>> : c \in BoundaryCodePoints}

\* Strings handed to hash!.
HashInputs == {<<>>, <<97>>, <<97, 98>>, HelloWorld, as_bytes(<<127757>>)}

\* file!() of the crate's lib.rs, as the build sees it: "src/lib.rs".
LibPaths == {<<115, 114, 99, 47, 108, 105, 98, 46, 114, 115>>}

\* Where random!(u8) of XREF_SHIFT stands in lib.rs.
XrefLine == 105
XrefColumn == 28

\* Call sites of obfconst!: src/main.rs:1:28 and src/main.rs:7:9.
MainRs == <<115, 114, 99, 47, 109, 97, 105, 110, 46, 114, 115>>
Sites ==
    {[file |-> MainRs, line |-> 1, column |-> 28],
     [file |-> MainRs, line |-> 7, column |-> 9]}

\* Keys handed to obfuscate directly.
DirectKeys == {<<0, 0, 0, 0>>}

\* The keys a literal can be built with under the seed.
KeyChoices(seed) ==
    DirectKeys
    \cup {random_u32(entropy(seed, c.file, c.line, c.column)) : c \in Sites}

\* Calls of deobfuscate and eq: where the ObfString lies and the masking
\* value handed in (random!(usize) & 0xffff).  The literal at 0x10 is called
\* with 0, the one at 0x555555558040 with 0xffff.
Calls ==
    {[base |-> <<16, 0, 0, 0, 0, 0, 0, 0>>, x |-> <<0, 0, 0, 0, 0, 0, 0, 0>>],
     [base |-> <<64, 128, 85, 85, 85, 85, 0, 0>>, x |-> <<255, 255, 0, 0, 0, 0, 0, 0>>]}

\* A scalar value of the same UTF-8 length whose encoding differs in its
\* first byte, and one whose encoding differs in its last byte.
AltFirst(cp) ==
    IF cp < 128 THEN cp + 1
    ELSE IF cp < 2048 THEN cp - 64
    ELSE IF cp < 65536 THEN cp - 4096
    ELSE cp + 262144
AltLast(cp) == cp + 1

\* Candidate strings compared with the literal of text.
CandidateTexts(text) ==
    {text, <<>>, Append(text, 65)}
    \cup (IF text = <<>> THEN {}
          ELSE {SubSeq(text, 1, Len(text) - 1),
                [text EXCEPT ![1] = AltFirst(text[1])],
                [text EXCEPT ![Len(text)] = AltLast(text[Len(text)])]})

\* Candidate slices compared with the wide literal whose units are u.
CandidateUnits(u) ==
    {u, <<>>, Append(u, 65)}
    \cup (IF u = <<>> THEN {}
          ELSE {SubSeq(u, 1, Len(u) - 1),
                [u EXCEPT ![1] = (u[1] + 1) % 65536],
                [u EXCEPT ![Len(u)] = (u[Len(u)] + 1) % 65536]})

\* ------------------------------------------------------------------------
\* State.

VARIABLES
    pc,         \* where the build, then the run, stands
    env,        \* OBFSTR_SEED in the environment of the build
    rustcEnv,   \* OBFSTR_SEED as the compiler sees it
    SEED,       \* the crate's SEED constant (<<>> before it is evaluated)
    xrefShift,  \* the crate's XREF_SHIFT constant (0 before it is evaluated)
    hashIn,     \* hash!'s argument
    hashOut,    \* hash!'s value (<<>> before it is evaluated)
    text,       \* the literal's source text, as scalar values
    form,       \* "narrow" (obfconst!($s)), "wide" (obfconst!(L$s)), "wide!"
    LEN,        \* the const generic LEN of the literal
    w,          \* wide_len's and wide's locals: i, len, j, data
    lit,        \* the ObfString constant: key, data
    rt,         \* one call of deobfuscate or eq
    ks          \* the key stream on its own: a walk along it, powers of its matrix

vars == <<pc, env, rustcEnv, SEED, xrefShift, hashIn, hashOut, text, form, LEN, w, lit, rt,
          ks>>

build == <<env, rustcEnv, SEED, xrefShift>>
hashing == <<hashIn, hashOut>>
literal == <<text, form, LEN, w, lit>>

Zero32 == <<0, 0, 0, 0>>
Zero64 == <<0, 0, 0, 0, 0, 0, 0, 0>>

NoCall ==
    [op |-> "none", base |-> Zero64, x |-> Zero64, cand |-> <<>>, ptr |-> Zero64,
     f |-> "none", src |-> Zero64, key |-> Zero32, i |-> 0, dest |-> <<>>,
     ret |-> FALSE, rounds |-> 0, reads |-> 0]

KsIdle ==
    [mode |-> "idle", k0 |-> Zero32, x |-> Zero32, n |-> 0,
     p |-> 0, bit |-> 0, pow |-> <<>>, acc |-> <<>>]

\* Nothing built, nothing called.
Fresh ==
    /\ pc = "start"
    /\ rustcEnv = NoEnv
    /\ SEED = <<>>
    /\ xrefShift = 0
    /\ hashIn = <<>>
    /\ hashOut = <<>>
    /\ text = <<>>
    /\ form = "none"
    /\ LEN = 0
    /\ w = [i |-> 0, len |-> 0, j |-> 0, data |-> <<>>]
    /\ lit = [key |-> Zero32, data |-> <<>>]
    /\ rt = NoCall

Init ==
    /\ Fresh
    /\ env \in EnvValues
    /\ ks = KsIdle

\* ------------------------------------------------------------------------
\* Build time.

\* hash!($string): const HASH: u32 = hash($string).
HashMacro ==
    /\ pc = "start"
    /\ \E s \in HashInputs :
        /\ hashIn' = s
        /\ hashOut' = hash(s)
    /\ pc' = "hashed"
    /\ UNCHANGED <<ks, build, literal, rt>>

\* The build script: it hands the compiler OBFSTR_SEED, a fixed string when
\* the environment has none.
BuildScript ==
    /\ pc = "start"
    /\ rustcEnv' = IF env = NoEnv THEN DefaultSeed ELSE env
    /\ pc' = "rustc"
    /\ UNCHANGED <<ks, env, SEED, xrefShift, hashing, literal, rt>>

\* SEED without the bit mixing.
SEED_of_unmixed(e) == Widen(hash(e), 8)

\* The value of `pub const SEED` for OBFSTR_SEED = e.
SEED_of(e) == splitmix(Widen(hash(e), 8))

\* pub const SEED: env! fails the compilation when the variable is not set.
CompileSEED ==
    /\ pc = "rustc"
    /\ IF rustcEnv = NoEnv
       THEN /\ pc' = "compile_error"
            /\ SEED' = SEED
       ELSE /\ pc' = "xref"
            /\ SEED' = SEED_of(rustcEnv)
    /\ UNCHANGED <<ks, env, rustcEnv, xrefShift, hashing, literal, rt>>

\* const XREF_SHIFT, evaluated at its place in lib.rs.
CompileXREF_SHIFT ==
    /\ pc = "xref"
    /\ \E path \in LibPaths :
        xrefShift' = XREF_SHIFT(entropy(SEED, path, XrefLine, XrefColumn))
    /\ pc' = "macro"
    /\ UNCHANGED <<ks, env, rustcEnv, SEED, hashing, literal, rt>>

\* obfconst!($s): LEN = $s.len(), obfuscate(random!(u32), $s).
ObfConst ==
    /\ pc = "macro"
    /\ \E t \in Texts, k \in KeyChoices(SEED) :
        LET string == as_bytes(t)
            r == obfuscate(Len(string), k, string)
        IN  /\ text' = t
            /\ form' = "narrow"
            /\ LEN' = Len(string)
            /\ lit' = [key |-> r.key, data |-> r.data]
            /\ pc' = IF r.ok THEN "static" ELSE "compile_error"
    /\ UNCHANGED <<ks, build, hashing, w, rt>>

\* obfconst!(L$s): the const generic argument wide_len($s) is evaluated first;
\* the key is random!(u32) of the call site.
ObfConstWide ==
    /\ pc = "macro"
    /\ \E t \in Texts, k \in KeyChoices(SEED) :
        /\ text' = t
        /\ lit' = [key |-> k, data |-> <<>>]
    /\ form' = "wide"
    /\ w' = [i |-> 0, len |-> 0, j |-> 0, data |-> <<>>]
    /\ pc' = "wide_len"
    /\ UNCHANGED <<ks, build, hashing, LEN, rt>>

\* wide!($s): wide::<{wide_len($s)}>($s).
WideMacro ==
    /\ pc = "start"
    /\ \E t \in WideInputs : text' = t
    /\ form' = "wide!"
    /\ w' = [i |-> 0, len |-> 0, j |-> 0, data |-> <<>>]
    /\ pc' = "wide_len"
    /\ UNCHANGED <<ks, build, hashing, LEN, lit, rt>>

\* One turn of wide_len's loop, or its return.
WideLenStep ==
    /\ pc = "wide_len"
    /\ LET s == as_bytes(text)
       IN  IF w.i < Len(s)
           THEN LET d == wide_len_decode(s, w.i)
                IN  IF d.ok
                    THEN /\ w' = [w EXCEPT !.i = d.i,
                                           !.len = w.len + wide_len_units(d.chr)]
                         /\ pc' = pc
                         /\ LEN' = LEN
                    ELSE /\ pc' = "compile_error"
                         /\ UNCHANGED <<ks, w, LEN>>
           ELSE \* return len; wide::<LEN> starts with data = [0u16; LEN]
                /\ LEN' = w.len
                /\ w' = [w EXCEPT !.i = 0, !.j = 0, !.data = Zeros(w.len)]
                /\ pc' = "wide"
    /\ UNCHANGED <<ks, build, hashing, text, form, lit, rt>>

\* data after the writes of one code point at j; ok = FALSE when an index is
\* out of the array (a panic in const evaluation).
wide_write(data, j, chr) ==
    LET u == wide_units(chr)
    IN  IF j + Len(u) > Len(data)
        THEN [ok |-> FALSE, data |-> data, j |-> j]
        ELSE [ok |-> TRUE,
              data |-> Tuple([k \in 1..Len(data) |->
                                  IF k > j /\ k <= j + Len(u) THEN u[k - j] ELSE data[k]]),
              j |-> j + Len(u)]

\* One turn of wide's loop, or its return: to wide!'s caller, or into
\* obfuscate (line 340), which encrypts the array and yields the constant.
WideStep ==
    /\ pc = "wide"
    /\ LET s == as_bytes(text)
       IN  IF w.i < Len(s)
           THEN LET d == wide_decode(s, w.i)
                    wr == wide_write(w.data, w.j, d.chr)
                IN  IF d.ok /\ wr.ok
                    THEN /\ w' = [w EXCEPT !.i = d.i, !.j = wr.j, !.data = wr.data]
                         /\ pc' = pc
                         /\ lit' = lit
                    ELSE /\ pc' = "compile_error"
                         /\ UNCHANGED <<ks, w, lit>>
           ELSE IF form = "wide!"
           THEN /\ pc' = "wide_done"
                /\ UNCHANGED <<ks, w, lit>>
           ELSE LET r == obfuscate_wide(LEN, lit.key, w.data)
                IN  /\ lit' = [key |-> r.key, data |-> r.data]
                    /\ w' = w
                    /\ pc' = IF r.ok THEN "static" ELSE "compile_error"
    /\ UNCHANGED <<ks, build, hashing, text, form, LEN, rt>>

\* ------------------------------------------------------------------------
\* Run time.

\* deobfuscate(&self, x) up to the call through the resolved address.
Deobfuscate ==
    /\ pc = "static"
    /\ \E c \in Calls :
        rt' = [NoCall EXCEPT
                 !.op = "deobfuscate", !.base = c.base, !.x = c.x,
                 !.ptr = shifted_ptr(c.base, LEN, xrefShift, form),
                 !.dest = Tuple([k \in 1..LEN |-> -1])]
    /\ pc' = "resolve"
    /\ UNCHANGED <<ks, build, hashing, literal>>

\* The plaintext units of the literal, as the builder saw them.
Plain == IF form = "wide" THEN w.data ELSE as_bytes(text)

\* Candidates of eq: a &str in the narrow form, a &[u16] in the wide form.
Candidates ==
    IF form = "wide" THEN CandidateUnits(w.data)
    ELSE {as_bytes(t) : t \in CandidateTexts(text)}

\* A length test that lets a longer candidate through.
eq_length_shorter(n, s) == n > Len(s)

\* line 257 (and 354): LEN != s.len()
eq_length_differs(n, s) == n # Len(s)

\* eq(&self, s, x): the length test, then the pointer for the routine.
Eq ==
    /\ pc = "static"
    /\ \E c \in Calls, s \in Candidates :
        IF eq_length_differs(LEN, s)
        THEN /\ rt' = [NoCall EXCEPT !.op = "eq", !.base = c.base, !.x = c.x,
                                     !.cand = s, !.ret = FALSE]
             /\ pc' = "done"
        ELSE /\ rt' = [NoCall EXCEPT
                         !.op = "eq", !.base = c.base, !.x = c.x, !.cand = s,
                         !.ptr = shifted_ptr(c.base, LEN, xrefShift, form)]
             /\ pc' = "resolve"
    /\ UNCHANGED <<ks, build, hashing, literal>>

\* let f = transmute(read_volatile(&(routine as usize + x)) - x)
Resolve ==
    /\ pc = "resolve"
    /\ LET f == resolve(routine_of(rt.op, form), rt.x)
       IN  /\ rt' = [rt EXCEPT !.f = f]
           /\ pc' = IF f = "wild" THEN "wild" ELSE "enter"
    /\ UNCHANGED <<ks, build, hashing, literal>>

\* f(.., ptr, LEN): the routine undoes the shift and reads the key.
Enter ==
    /\ pc = "enter"
    /\ LET src == unshifted_ptr(rt.ptr, LEN, xrefShift, routine_size(rt.f))
       IN  \E k \in load_key_before(src, rt.base, lit) :
               rt' = [rt EXCEPT !.src = src, !.key = k, !.i = 0]
    /\ pc' = "loop"
    /\ UNCHANGED <<ks, build, hashing, literal>>

\* One turn of decryptbuf's or wdecryptbuf's loop, or the return.
DecryptStep ==
    /\ pc = "loop"
    /\ rt.f \in {"decryptbuf", "wdecryptbuf"}
    /\ IF rt.i < LEN
       THEN LET key == next_round(rt.key)
            IN  /\ \E u \in load_unit(rt.src, rt.i, routine_size(rt.f), rt.base, lit) :
                       rt' = [rt EXCEPT
                                !.key = key,
                                !.dest[rt.i + 1] = BitXor(u, routine_mask(rt.f, key)),
                                !.i = rt.i + 1,
                                !.rounds = rt.rounds + 1,
                                !.reads = rt.reads + 1]
                /\ pc' = pc
       ELSE /\ rt' = rt
            /\ pc' = "done"
    /\ UNCHANGED <<ks, build, hashing, literal>>

\* One turn of decrypteq's or wdecrypteq's loop, or a return.
DecryptEqStep ==
    /\ pc = "loop"
    /\ rt.f \in {"decrypteq", "wdecrypteq"}
    /\ IF rt.i < LEN
       THEN LET key == next_round(rt.key)
            IN  \E u \in load_unit(rt.src, rt.i, routine_size(rt.f), rt.base, lit) :
                    IF rt.cand[rt.i + 1] # BitXor(u, routine_mask(rt.f, key))
                    THEN /\ rt' = [rt EXCEPT !.key = key, !.ret = FALSE,
                                             !.rounds = rt.rounds + 1,
                                             !.reads = rt.reads + 2]
                         /\ pc' = "done"
                    ELSE /\ rt' = [rt EXCEPT !.key = key, !.i = rt.i + 1,
                                             !.rounds = rt.rounds + 1,
                                             !.reads = rt.reads + 2]
                         /\ pc' = pc
       ELSE /\ rt' = [rt EXCEPT !.ret = TRUE]
            /\ pc' = "done"
    /\ UNCHANGED <<ks, build, hashing, literal>>

Next ==
    \/ HashMacro
    \/ BuildScript
    \/ CompileSEED
    \/ CompileXREF_SHIFT
    \/ ObfConst
    \/ ObfConstWide
    \/ WideMacro
    \/ WideLenStep
    \/ WideStep
    \/ Deobfuscate
    \/ Eq
    \/ Resolve
    \/ Enter
    \/ DecryptStep
    \/ DecryptEqStep

Spec == Init /\ [][Next]_vars

\* ------------------------------------------------------------------------
\* The key stream on its own.  next_round is built from shifts and XORs, so
\* it is a linear map on the 32 bits of the key; its matrix has the images of
\* the 32 one-bit keys as columns.

\* Rounds walked from one starting key.
MaxRounds == 6

\* The key 2^j.
OneBit(j) == Tuple([i \in 1..4 |-> IF j \div 8 = i - 1 THEN Pow2(j % 8) ELSE 0])

\* Bit j of the key v.
BitOf(v, j) == (v[(j \div 8) + 1] \div Pow2(j % 8)) % 2

\* The matrix of next_round, a column per bit.
RoundMatrix == Tuple([j \in 1..32 |-> next_round(OneBit(j - 1))])

IdentityMatrix == Tuple([j \in 1..32 |-> OneBit(j - 1)])

\* The matrix m applied to the key v: the XOR of the columns of v's bits.
RECURSIVE ApplyFrom(_, _, _, _)
ApplyFrom(m, v, j, sum) ==
    IF j = 32 THEN sum
    ELSE LET t == IF BitOf(v, j) = 1 THEN WXor(sum, m[j + 1]) ELSE sum
         IN  IF Len(t) = 4 THEN ApplyFrom(m, v, j + 1, t) ELSE <<>>

Apply(m, v) == ApplyFrom(m, v, 0, Zero32)

\* The product a * b (b applied first).
Compose(a, b) == Tuple([j \in 1..32 |-> Apply(a, b[j])])

\* Keys walked from: 0, 1, 2^31, 2^32 - 1, and the key of src/main.rs:1:28.
WalkKeys ==
    {<<0, 0, 0, 0>>, <<1, 0, 0, 0>>, <<0, 0, 0, 128>>, <<255, 255, 255, 255>>,
     <<44, 32, 93, 68>>}

\* The prime divisors of 2^32 - 1, and 1.
OrderDivisors == {1, 3, 5, 17, 257, 65537}

\* (2^32 - 1) / p for a prime divisor p, as 65535 * (65537 / p) or
\* (65535 / p) * 65537; it is below 2^31.
Cofactor(p) == IF p = 65537 THEN 65535 ELSE (65535 \div p) * 65537

\* Bit b of the exponent (2^32 - 1) / p; with p = 1 all 32 bits are set.
ExponentBit(p, b) == IF p = 1 THEN 1 ELSE (Cofactor(p) \div Pow2(b)) % 2

InitKeyStream ==
    /\ Fresh
    /\ env = NoEnv
    /\ \/ \E k \in WalkKeys : ks = [KsIdle EXCEPT !.mode = "walk", !.k0 = k, !.x = k]
       \/ \E p \in OrderDivisors :
              ks = [KsIdle EXCEPT !.mode = "order", !.p = p,
                                  !.pow = RoundMatrix, !.acc = IdentityMatrix]

\* One more round of the schedule: round_key = next_round(round_key).
KeyRound ==
    /\ ks.mode = "walk"
    /\ ks.n < MaxRounds
    /\ ks' = [ks EXCEPT !.x = next_round(ks.x), !.n = ks.n + 1]
    /\ UNCHANGED <<pc, build, hashing, literal, rt>>

\* One bit of a power of the matrix by repeated squaring: pow is the matrix
\* to the 2^bit, acc the matrix to the low `bit` bits of the exponent
\* (2^32 - 1) / p.
PowerStep ==
    /\ ks.mode = "order"
    /\ ks.bit < (IF ks.p = 1 THEN 32 ELSE 31)
    /\ ks' = [ks EXCEPT
                !.bit = ks.bit + 1,
                !.pow = Compose(ks.pow, ks.pow),
                !.acc = IF ExponentBit(ks.p, ks.bit) = 1
                        THEN Compose(ks.pow, ks.acc)
                        ELSE ks.acc]
    /\ UNCHANGED <<pc, build, hashing, literal, rt>>

NextKeyStream == KeyRound \/ PowerStep

SpecKeyStream == InitKeyStream /\ [][NextKeyStream]_vars

\* ------------------------------------------------------------------------
\* What the properties are stated against: the encodings, written from
\* their definitions and not from the program.

\* UTF-8 length of a scalar value, and of a text.
Utf8Len(cp) == IF cp < 128 THEN 1 ELSE IF cp < 2048 THEN 2 ELSE IF cp < 65536 THEN 3 ELSE 4

RECURSIVE Utf8Count(_)
Utf8Count(t) == IF t = <<>> THEN 0 ELSE Utf8Len(Head(t)) + Utf8Count(Tail(t))

\* UTF-16 length and units of a text.
RECURSIVE Utf16Count(_)
Utf16Count(t) ==
    IF t = <<>> THEN 0 ELSE (IF Head(t) >= 65536 THEN 2 ELSE 1) + Utf16Count(Tail(t))

Utf16Of(cp) ==
    IF cp >= 65536
    THEN <<55296 + ((cp - 65536) \div 1024), 56320 + ((cp - 65536) % 1024)>>
    ELSE <<cp>>

RECURSIVE Utf16(_)
Utf16(t) == IF t = <<>> THEN <<>> ELSE Utf16Of(Head(t)) \o Utf16(Tail(t))

\* The code units of the literal's text in its form.
ExpectedUnits == IF form = "narrow" THEN as_bytes(text) ELSE Utf16(text)

\* The key after n rounds from k.
RECURSIVE Rounds(_, _)
Rounds(k, n) == IF n = 0 THEN k ELSE next_round(Rounds(k, n - 1))

\* 1-based index of the first unit in which a and b, of one length, differ.
FirstDiff(a, b) ==
    CHOOSE i \in 1..Len(a) : a[i] # b[i] /\ \A k \in 1..(i - 1) : a[k] = b[k]

\* ------------------------------------------------------------------------
\* Properties.

\* C1: round trip.  When deobfuscate returns, its buffer holds, unit for
\* unit, the code units of the source text (its UTF-8 bytes in the narrow
\* form, its UTF-16 units in the wide form), for every key and every mask x.
C1_RoundTrip ==
    (pc = "done" /\ rt.op = "deobfuscate") => rt.dest = ExpectedUnits

C1_Witness ==
    /\ pc = "done"
    /\ rt.op = "deobfuscate"
    /\ form = "narrow"
    /\ text = <<233, 127757>>
    /\ lit.key # Zero32
    /\ rt.x # Zero64
    /\ rt.dest = <<195, 169, 240, 159, 140, 141>>

\* C2: no plaintext in static data.  The data array of the constant built
\* at a call site (its key the site's random!(u32)) for a non-empty text
\* differs from the text's code units.
C2_NoPlaintext ==
    (/\ pc = "static"
     /\ LEN > 0
     /\ lit.key \in {random_u32(entropy(SEED, c.file, c.line, c.column)) : c \in Sites})
        => lit.data # ExpectedUnits

\* C3: equality consistency.  eq returns true exactly when the candidate
\* equals, unit for unit, what deobfuscate returns for the literal (its
\* code units, by C1); an empty literal equals an empty candidate.
C3_EqConsistent ==
    (pc = "done" /\ rt.op = "eq") =>
        /\ rt.ret <=> (rt.cand = ExpectedUnits)
        /\ (LEN = 0 /\ rt.cand = <<>>) => rt.ret

C3_Witness ==
    /\ pc = "done"
    /\ rt.op = "eq"
    /\ rt.ret
    /\ form = "wide"
    /\ text = <<127757, 8364>>
    /\ rt.cand = <<55356, 57101, 8364>>
    /\ lit.key # Zero32

\* C4: length invariant.  The narrow literal has as many units as the text
\* has UTF-8 bytes; wide_len returns the text's UTF-16 unit count; wide keeps
\* its write index j within LEN, leaves the units from j on unwritten, ends
\* with j = LEN, and reads each code point over the same bytes as wide_len;
\* the build never fails in either pass.
C4_LengthInvariant ==
    /\ (pc = "static" /\ form = "narrow") =>
           LEN = Utf8Count(text) /\ Len(lit.data) = LEN
    /\ (pc \in {"wide", "wide_done"} \/ (pc = "static" /\ form = "wide")) =>
           /\ LEN = Utf16Count(text)
           /\ Len(w.data) = LEN
           /\ w.j <= LEN
           /\ \A k \in (w.j + 1)..LEN : w.data[k] = 0
    /\ (pc = "wide_done" \/ (pc = "static" /\ form = "wide")) =>
           w.j = LEN /\ w.i = Len(as_bytes(text))
    /\ (pc = "static" /\ form = "wide") => Len(lit.data) = LEN
    /\ (pc \in {"wide_len", "wide"} /\ w.i < Len(as_bytes(text))) =>
           wide_len_decode(as_bytes(text), w.i).i = wide_decode(as_bytes(text), w.i).i
    /\ (form \in {"wide", "wide!"}) => pc # "compile_error"

C4_Witness ==
    /\ pc = "wide_done"
    /\ text = <<127757, 65>>
    /\ LEN = 3
    /\ w.j = 3

\* C5: wide conversion.  The array wide returns holds the UTF-16 units of the
\* text: a code point from 0x10000 up as the pair high = 0xD800 +
\* (cp - 0x10000) / 0x400 in [0xD800, 0xDBFF] and low = 0xDC00 +
\* (cp - 0x10000) % 0x400 in [0xDC00, 0xDFFF], from which the code point is
\* recovered; a code point below 0x10000 as the one unit equal to it.
C5_WideUnits ==
    (pc = "wide_done" \/ (pc = "static" /\ form = "wide")) =>
        /\ w.data = Utf16(text)
        /\ (Len(text) = 1 /\ text[1] >= 65536) =>
               /\ Len(w.data) = 2
               /\ w.data[1] \in 55296..56319
               /\ w.data[2] \in 56320..57343
               /\ 65536 + (w.data[1] - 55296) * 1024 + (w.data[2] - 56320) = text[1]
        /\ (Len(text) = 1 /\ text[1] < 65536) => w.data = <<text[1]>>

C5_Witness ==
    /\ pc = "wide_done"
    /\ text = <<1114111>>
    /\ w.data = <<56319, 57343>>

\* C6: hash anchor.  hash folds result*33 + byte (mod 2^32) over the bytes
\* from 3581, and hash("Hello World") = 1481604729.
C6_HashAnchor ==
    (pc = "hashed") =>
        /\ (hashIn = HelloWorld) => hashOut = FromNat(1481604729, 4)
        /\ (hashIn = <<>>) => hashOut = FromNat(3581, 4)
        /\ (Len(hashIn) = 1) => hashOut = FromNat(3581 * 33 + hashIn[1], 4)
        /\ (Len(hashIn) = 2) =>
               hashOut = FromNat((3581 * 33 + hashIn[1]) * 33 + hashIn[2], 4)

C6_Witness ==
    /\ pc = "hashed"
    /\ hashIn = HelloWorld
    /\ hashOut = <<121, 126, 79, 88>>

C8_ShortCircuit ==
    (pc = "done" /\ rt.op = "eq") =>
        /\ (Len(rt.cand) # LEN) =>
               /\ ~rt.ret
               /\ rt.f = "none"
               /\ rt.rounds = 0
               /\ rt.reads = 0
        /\ (Len(rt.cand) = LEN /\ rt.cand # ExpectedUnits) =>
               /\ ~rt.ret
               /\ rt.i = FirstDiff(rt.cand, ExpectedUnits) - 1
               /\ rt.rounds = FirstDiff(rt.cand, ExpectedUnits)
               /\ rt.reads = 2 * FirstDiff(rt.cand, ExpectedUnits)

C8_Witness ==
    /\ pc = "done"
    /\ rt.op = "eq"
    /\ LEN = 0
    /\ rt.cand = <<65>>
    /\ ~rt.ret
    /\ rt.f = "none"

\* XREF_SHIFT for every value of the byte random!(u8) yields.
C9_ShiftRange == \A b \in 0..255 : XREF_SHIFT(<<b, 0, 0, 0, 0, 0, 0, 0>>) \in 32..63

\* C9: the data-pointer indirection is undone exactly.  XREF_SHIFT lies in
\* [32, 63]; the pointer passed lies LEN * XREF_SHIFT elements below the data
\* (wrapping at the word width); the routine's pointer is the literal's data
\* address again, the key it starts from is the literal's key field, and the
\* call lands in the routine named.
C9_PointerUndone ==
    /\ (pc = "macro") => C9_ShiftRange
    /\ (xrefShift # 0) => xrefShift \in 32..63
    /\ pc # "wild"
    /\ (pc \in {"enter", "loop", "done"} /\ rt.f # "none") =>
           /\ rt.f = routine_of(rt.op, form)
           /\ WAdd(rt.ptr, FromNat(LEN * xrefShift * ElemSize(form), UsizeBytes))
                  = WAdd(rt.base, FromNat(DataOffset, UsizeBytes))
    /\ (pc \in {"loop", "done"} /\ rt.f # "none") =>
           /\ rt.src = WAdd(rt.base, FromNat(DataOffset, UsizeBytes))
           /\ rt.key = Rounds(lit.key, rt.rounds)

C9_Witness ==
    /\ pc = "loop"
    /\ form = "wide"
    /\ LEN = 3
    /\ rt.base = <<16, 0, 0, 0, 0, 0, 0, 0>>
    /\ rt.ptr[8] = 255
    /\ rt.src = <<20, 0, 0, 0, 0, 0, 0, 0>>
    /\ rt.rounds = 2

\* C10 as stated: iterating next_round from any starting key does not come
\* back to that key before every 32-bit value has been visited; in
\* particular no key is mapped to itself.
C10_FullPeriodAllKeys ==
    (ks.mode = "walk" /\ ks.n > 0) => ks.x # ks.k0

\* C10 amended: next_round is linear and one-to-one with 0 as its only fixed
\* point: key 0 is mapped to itself; a walk from a nonzero key never reaches
\* 0 and does not come back to its start; distinct keys have distinct
\* successors; and the matrix of next_round has order exactly 2^32 - 1 (its
\* (2^32 - 1)-th power is the identity, and its (2^32 - 1)/p-th power is not
\* the identity for any prime p dividing 2^32 - 1), which for a linear map
\* on 32 bits means one cycle through all 2^32 - 1 nonzero keys.
C10_FullPeriodNonzero ==
    /\ (ks.mode = "walk") =>
           /\ (ks.k0 = Zero32) => ks.x = Zero32
           /\ (ks.k0 # Zero32 /\ ks.n > 0) => (ks.x # ks.k0 /\ ks.x # Zero32)
           /\ (ks.x = Zero32) <=> (next_round(ks.x) = ks.x)
           /\ \A k \in WalkKeys : (k # ks.x) => next_round(k) # next_round(ks.x)
           /\ \A k \in WalkKeys :
                  next_round(WXor(k, ks.x)) = WXor(next_round(k), next_round(ks.x))
           /\ Apply(RoundMatrix, ks.x) = next_round(ks.x)
    /\ (ks.mode = "order" /\ ks.p = 1 /\ ks.bit = 32) =>
           (ks.acc = IdentityMatrix /\ ks.pow = RoundMatrix)
    /\ (ks.mode = "order" /\ ks.p # 1 /\ ks.bit = 31) => ks.acc # IdentityMatrix

C10_Witness ==
    /\ ks.mode = "order"
    /\ ks.p = 65537
    /\ ks.bit = 31
    /\ ks.acc # IdentityMatrix
    /\ ks.acc # <<>>

====
